---- MODULE Spec2Model ----
(***************************************************************************)
(* Model of skbel/bnn/models.py: the factory functions variational_model   *)
(* and probabilistic_variational_model, and the estimator wrapper PBNN.    *)
(* The deep-learning framework is an external collaborator: constructing a *)
(* layer, a Sequential, compiling, fitting, calling and sampling are       *)
(* recorded as events, and a framework call may raise.                     *)
(***************************************************************************)
EXTENDS Integers, Sequences, FiniteSets, TLC

\* ---- bounds of the exploration ----
MaxLayers == 2          \* n_layers ranges over 0 .. MaxLayers
MaxLen == 3             \* longest n_hidden list
MaxWidth == 2           \* widths range over 1 .. MaxWidth
MaxShape == 2           \* output_shape ranges over 1 .. MaxShape
MaxFits == 2            \* cap on the number of completed trainings
NDraws == 2             \* distinct outcomes of one random sampling

\* ---- Python values ----
None == [kind |-> "None"]
NoExc == "none"

\* n_hidden is an int or a list of ints
PyInt(h) == [list |-> FALSE, val |-> <<h>>]
PyList(s) == [list |-> TRUE, val |-> s]
isinstance_list(v) == v.list
len(v) == Len(v.val)

RECURSIVE SeqsUpTo(_, _)
SeqsUpTo(S, n) ==
    IF n = 0 THEN {<<>>}
    ELSE LET shorter == SeqsUpTo(S, n - 1)
         IN shorter \cup {Append(s, e) : s \in {t \in shorter : Len(t) = n - 1}, e \in S}

Widths == 1..MaxWidth
NHiddenDom == {PyInt(h) : h \in Widths} \cup {PyList(s) : s \in SeqsUpTo(Widths, MaxLen)}
NLayersDom == 0..MaxLayers
ShapeDom == 1..MaxShape

\* [x] * n : the empty list when n <= 0
ListRepeat(x, n) == [i \in 1..(IF n > 0 THEN n ELSE 0) |-> x]

\* n_hidden[i] with a 0-based, non-negative i
GetItem(v, i) ==
    IF ~isinstance_list(v) THEN [exc |-> "TypeError", val |-> 0]
    ELSE IF i < len(v) THEN [exc |-> NoExc, val |-> v.val[i + 1]]
    ELSE [exc |-> "IndexError", val |-> 0]

\* ---- framework objects ----
DenseVariational(units, activation, name) ==
    [cls |-> "DenseVariational", units |-> units, activation |-> activation, name |-> name]
Dense(units, activation, name) ==
    [cls |-> "Dense", units |-> units, activation |-> activation, name |-> name]
InputLayer(input_shape, name) ==
    [cls |-> "InputLayer", units |-> input_shape, activation |-> "none", name |-> name]
MultivariateNormalTriL(event_size, name) ==
    [cls |-> "MultivariateNormalTriL", units |-> event_size, activation |-> "none", name |-> name]
params_size(event_size) == event_size + (event_size * (event_size + 1)) \div 2

Ev(what, name) == [ev |-> what, name |-> name]
NoModel == [kind |-> "None", layers |-> <<>>, loss |-> "none", compiled |-> 0]
Sequential(layers) == [kind |-> "Sequential", layers |-> layers, loss |-> "none", compiled |-> 0]
compile(model, loss) == [model EXCEPT !.loss = loss, !.compiled = @ + 1]

\* The list comprehension  [DenseVariational(n_hidden[i], ..., name=f"dense{i + 1}")
\* for i in range(n_layers)], evaluated element by element from i
RECURSIVE variational_layers(_, _, _, _, _)
variational_layers(n_hidden, n_layers, i, layers, events) ==
    IF i >= n_layers THEN [exc |-> NoExc, layers |-> layers, events |-> events]
    ELSE LET item == GetItem(n_hidden, i)
             name == "dense" \o ToString(i + 1)
         IN IF item.exc # NoExc
            THEN [exc |-> item.exc, layers |-> layers, events |-> events]
            ELSE variational_layers(n_hidden, n_layers, i + 1,
                     Append(layers, DenseVariational(item.val, "relu", name)),
                     Append(events, Ev("layer", name)))

Raise(e, events, n_hidden) ==
    [exc |-> e, model |-> NoModel, events |-> events, n_hidden |-> n_hidden]
Return(model, events, n_hidden) ==
    [exc |-> NoExc, model |-> model, events |-> events, n_hidden |-> n_hidden]

\* the isinstance / len check and the scalar expansion (models.py 203-210)
variational_mismatch_shorter(n_hidden, n_layers) ==
    isinstance_list(n_hidden) /\ len(n_hidden) < n_layers
variational_mismatch(n_hidden, n_layers) ==
    isinstance_list(n_hidden) /\ len(n_hidden) # n_layers

variational_expand_one(n_hidden, n_layers) ==
    IF isinstance_list(n_hidden) THEN n_hidden ELSE PyList(<<n_hidden.val[1]>>)
variational_expand(n_hidden, n_layers) ==
    IF isinstance_list(n_hidden) THEN n_hidden
    ELSE PyList(ListRepeat(n_hidden.val[1], n_layers))

variational_assemble_swapped(input_shape, output_shape, hidden) ==
    <<InputLayer(input_shape, "input"), Dense(output_shape, "linear", "output")>> \o hidden
variational_assemble(input_shape, output_shape, hidden) ==
    <<InputLayer(input_shape, "input")>> \o hidden
        \o <<Dense(output_shape, "linear", "output")>>

\* variational_model(input_shape, output_shape, n_hidden, kl_weight, n_layers)
\* The field n_hidden of the result is the caller's object after the call.
variational_model(input_shape, output_shape, n_hidden, kl_weight, n_layers) ==
    IF variational_mismatch(n_hidden, n_layers)
    THEN Raise("ValueError", <<>>, n_hidden)
    ELSE LET local == variational_expand(n_hidden, n_layers)
             hid == variational_layers(local, n_layers, 0, <<>>, <<>>)
         IN IF hid.exc # NoExc THEN Raise(hid.exc, hid.events, n_hidden)
            ELSE LET layers == variational_assemble(input_shape, output_shape, hid.layers)
                     events == hid.events \o <<Ev("layer", "input"), Ev("layer", "output"),
                                               Ev("Sequential", "model")>>
                     model == compile(Sequential(layers), "MeanSquaredError")
                 IN Return(model, Append(events, Ev("compile", "model")), n_hidden)

\* probabilistic_variational_model(input_shape, output_shape, n_hidden, kl_weight,
\*                                 n_layers, loss): no check, no expansion
probabilistic_variational_model(input_shape, output_shape, n_hidden, kl_weight, n_layers, loss) ==
    LET theLoss == IF loss = "None" THEN "neg_log_likelihood" ELSE loss
        hid == variational_layers(n_hidden, n_layers, 0, <<>>, <<>>)
    IN IF hid.exc # NoExc THEN Raise(hid.exc, hid.events, n_hidden)
       ELSE LET layers == <<InputLayer(input_shape, "input")>> \o hid.layers
                            \o <<DenseVariational(params_size(output_shape), "linear", "dense_output"),
                                 MultivariateNormalTriL(output_shape, "output")>>
                events == hid.events \o <<Ev("layer", "input"), Ev("layer", "dense_output"),
                                          Ev("layer", "output"), Ev("Sequential", "model")>>
                model == compile(Sequential(layers), theLoss)
            IN Return(model, Append(events, Ev("compile", "model")), n_hidden)

\* the arguments that are passed through to the framework untouched
Fixed == [input_shape |-> 3, kl_weight |-> 1]

\* ---- the framework's model object, as used by PBNN ----
\* A bundle st = [self, heap, calls, ret, exc] is threaded through one method
\* invocation: self is the wrapper's attributes, heap[ref] the number of
\* completed trainings of the model object ref, calls the log of the calls made
\* on the framework, ret the value returned and exc the exception raised.
FrameworkErrors == {"InvalidArgumentError", "ResourceExhaustedError"}
Outcomes == {NoExc} \cup FrameworkErrors

Arr(name) == [kind |-> "array", name |-> name]
XDom == {Arr("X1"), Arr("X2")}
YDom == {Arr("Y1")}
SelfRef == [kind |-> "PBNN"]

Entry(op, raised, result) ==
    [op |-> op, x |-> None, y |-> None, n |-> 0, epochs |-> 0, batch_size |-> 0,
     verbose |-> 0, kwargs |-> {}, raised |-> raised, result |-> result]

Logged(st, entry) ==
    [st EXCEPT !.calls = Append(@, entry), !.exc = entry.raised, !.ret = entry.result]

\* model.fit(X, y, epochs=, batch_size=, verbose=, **kwargs)
model_fit(st, m, X, y, epochs, batch_size, verbose, kwargs, e) ==
    LET res == IF e = NoExc THEN [kind |-> "History"] ELSE None
        entry == [Entry("fit", e, res) EXCEPT !.x = X, !.y = y, !.epochs = epochs,
                     !.batch_size = batch_size, !.verbose = verbose, !.kwargs = kwargs]
        st1 == Logged(st, entry)
    IN IF e = NoExc THEN [st1 EXCEPT !.heap[m.ref] = @ + 1] ELSE st1

\* model(X): the predictive distribution of the model in its current training state
model_call(st, m, X, e) ==
    LET res == IF e = NoExc
               THEN [kind |-> "dist", ref |-> m.ref, x |-> X, trained |-> st.heap[m.ref]]
               ELSE None
    IN Logged(st, [Entry("call", e, res) EXCEPT !.x = X])

\* distribution.sample(n): a random draw
dist_sample(st, d, n, e, draw) ==
    LET res == IF e = NoExc THEN [kind |-> "samples", dist |-> d, n |-> n, draw |-> draw]
               ELSE None
    IN Logged(st, [Entry("sample", e, res) EXCEPT !.n = n])

\* distribution.stddev()
dist_stddev(st, d, e) ==
    LET res == IF e = NoExc THEN [kind |-> "stddev", dist |-> d] ELSE None
    IN Logged(st, Entry("stddev", e, res))

\* model.evaluate(X, y, verbose=)
model_evaluate(st, m, X, y, verbose, e) ==
    LET res == IF e = NoExc
               THEN [kind |-> "loss", ref |-> m.ref, x |-> X, y |-> y, trained |-> st.heap[m.ref]]
               ELSE None
    IN Logged(st, [Entry("evaluate", e, res) EXCEPT !.x = X, !.y = y, !.verbose = verbose])

\* ---- class PBNN ----
n_layers_default == 2
epochs_default == 100
batch_size_default == 32
verbose_default == 0
n_samples_default == 100

\* PBNN.__init__: stores the eight arguments, then builds the model
PBNN_init(input_shape, output_shape, n_hidden, kl_weight, n_layers, epochs, batch_size, verbose) ==
    LET built == probabilistic_variational_model(input_shape, output_shape, n_hidden,
                                                 kl_weight, n_layers, "None")
    IN [exc |-> built.exc,
        self |-> [kind |-> "PBNN", input_shape |-> input_shape, output_shape |-> output_shape,
                  n_hidden |-> n_hidden, kl_weight |-> kl_weight, n_layers |-> n_layers,
                  epochs |-> epochs, batch_size |-> batch_size, verbose |-> verbose,
                  model |-> [ref |-> 1, val |-> built.model]]]

PBNN_fit_swallow(st, X, y, o) ==
    LET r == model_fit(st, st.self.model, X, y, st.self.epochs, st.self.batch_size,
                       st.self.verbose, {}, o.fit)
    IN [r EXCEPT !.ret = SelfRef, !.exc = NoExc]
PBNN_fit_rebuild(st, X, y, o) ==
    LET fresh == [ref |-> Len(st.heap) + 1, val |-> st.self.model.val]
        st1 == [st EXCEPT !.self.model = fresh, !.heap = Append(@, 0)]
        r == model_fit(st1, fresh, X, y, st.self.epochs, st.self.batch_size,
                       st.self.verbose, {}, o.fit)
    IN IF r.exc # NoExc THEN r ELSE [r EXCEPT !.ret = SelfRef]
PBNN_fit(st, X, y, o) ==
    LET r == model_fit(st, st.self.model, X, y, st.self.epochs, st.self.batch_size,
                       st.self.verbose, {}, o.fit)
    IN IF r.exc # NoExc THEN r ELSE [r EXCEPT !.ret = SelfRef]

PBNN_predict(st, X, n_samples, o) ==
    LET r == model_call(st, st.self.model, X, o.call)
    IN IF r.exc # NoExc THEN r ELSE dist_sample(r, r.ret, n_samples, o.sample, o.draw)

PBNN_predict_std(st, X, o) ==
    LET r == model_call(st, st.self.model, X, o.call)
    IN IF r.exc # NoExc THEN r ELSE dist_stddev(r, r.ret, o.stddev)

PBNN_score(st, X, y, o) ==
    model_evaluate(st, st.self.model, X, y, st.self.verbose, o.evaluate)

PBNN_transform_std(st, X, o) == PBNN_predict_std(st, X, o)
PBNN_transform(st, X, o) == PBNN_predict(st, X, n_samples_default, o)

PBNN_fit_transform_forward(st, X, y, fit_params, o) ==
    LET r == model_fit(st, st.self.model, X, y, st.self.epochs, st.self.batch_size,
                       st.self.verbose, fit_params, o.fit)
    IN IF r.exc # NoExc THEN r ELSE PBNN_transform(r, X, o)
\* self.fit(X, y).transform(X): transform is looked up on what fit returned
PBNN_fit_transform(st, X, y, fit_params, o) ==
    LET r == PBNN_fit(st, X, y, o)
    IN IF r.exc # NoExc THEN r
       ELSE IF r.ret # SelfRef THEN [r EXCEPT !.exc = "AttributeError", !.ret = None]
       ELSE PBNN_transform(r, X, o)

PBNN_inverse_transform_model(st, y) == model_call(st, st.self.model, y, NoExc)
PBNN_inverse_transform(st, y) == [st EXCEPT !.ret = y]

\* ---- state ----
VARIABLES
    call,     \* the last direct call of a factory function: its arguments and result
    pbnn,     \* the PBNN instance (its attributes), None before construction
    heap,     \* heap[ref]: completed trainings of the framework model object ref
    calls,    \* the framework calls made by the last PBNN method invocation
    ret,      \* what the last PBNN method invocation returned
    exc,      \* the exception the last PBNN method invocation raised
    last      \* the last PBNN method invocation and its arguments

vars == <<call, pbnn, heap, calls, ret, exc, last>>
pbnnVars == <<pbnn, heap, calls, ret, exc, last>>

NoCall == [fn |-> "none", n_hidden |-> PyList(<<>>), n_layers |-> 0, output_shape |-> 1,
           result |-> Raise(NoExc, <<>>, PyList(<<>>))]

Invocation(op, X, y, n, fit_params) ==
    [op |-> op, x |-> X, y |-> y, n |-> n, fit_params |-> fit_params]

Init ==
    /\ call = NoCall
    /\ pbnn = None
    /\ heap = <<>>
    /\ calls = <<>>
    /\ ret = None
    /\ exc = NoExc
    /\ last = Invocation("none", None, None, 0, {})

CallVariationalModel ==
    /\ \E nh \in NHiddenDom, nl \in NLayersDom, os \in ShapeDom :
        call' = [fn |-> "variational_model", n_hidden |-> nh, n_layers |-> nl,
                 output_shape |-> os,
                 result |-> variational_model(Fixed.input_shape, os, nh, Fixed.kl_weight, nl)]
    /\ UNCHANGED pbnnVars

CallProbabilisticVariationalModel ==
    /\ \E nh \in NHiddenDom, nl \in NLayersDom, os \in ShapeDom :
        call' = [fn |-> "probabilistic_variational_model", n_hidden |-> nh, n_layers |-> nl,
                 output_shape |-> os,
                 result |-> probabilistic_variational_model(Fixed.input_shape, os, nh, Fixed.kl_weight, nl, "None")]
    /\ UNCHANGED pbnnVars

Next == CallVariationalModel \/ CallProbabilisticVariationalModel

Spec == Init /\ [][Next]_vars

\* ---- the wrapper's life: construction, then any sequence of method calls ----
HyperDom == {[epochs |-> epochs_default, batch_size |-> batch_size_default, verbose |-> verbose_default],
             [epochs |-> 5, batch_size |-> 16, verbose |-> 1]}
\* the constructor's arguments: a scalar, lists as long as, longer and shorter than n_layers
CtorArgs(n_hidden, n_layers, output_shape) ==
    [n_hidden |-> n_hidden, n_layers |-> n_layers, output_shape |-> output_shape]
CtorDom == {CtorArgs(PyInt(2), n_layers_default, 1),
            CtorArgs(PyList(<<2, 1>>), n_layers_default, 1),
            CtorArgs(PyList(<<2, 1>>), 1, 2),
            CtorArgs(PyList(<<1>>), 1, 1),
            CtorArgs(PyList(<<1>>), n_layers_default, 2)}
NSamplesDom == {n_samples_default, 7}
FitParamsDom == {{}, {"sample_weight"}}
\* what the framework does in one invocation: per framework call, the error it
\* raises (or none), and the draw of the random sampling
Quiet == [fit |-> NoExc, call |-> NoExc, sample |-> NoExc, stddev |-> NoExc,
          evaluate |-> NoExc, draw |-> 1]
FitOutcomes == {[Quiet EXCEPT !.fit = e] : e \in Outcomes}
SampleOutcomes ==
    {[Quiet EXCEPT !.call = e] : e \in FrameworkErrors}
        \cup {[Quiet EXCEPT !.sample = e] : e \in FrameworkErrors}
        \cup {[Quiet EXCEPT !.draw = d] : d \in 1..NDraws}
StddevOutcomes ==
    {[Quiet EXCEPT !.call = e] : e \in FrameworkErrors}
        \cup {[Quiet EXCEPT !.stddev = e] : e \in Outcomes}
EvaluateOutcomes == {[Quiet EXCEPT !.evaluate = e] : e \in Outcomes}
FitSampleOutcomes ==
    {[Quiet EXCEPT !.fit = e] : e \in FrameworkErrors} \cup SampleOutcomes

Start == [self |-> pbnn, heap |-> heap, calls |-> <<>>, ret |-> None, exc |-> NoExc]

Finish(st, inv) ==
    /\ pbnn' = st.self
    /\ heap' = st.heap
    /\ calls' = st.calls
    /\ ret' = st.ret
    /\ exc' = st.exc
    /\ last' = inv
    /\ UNCHANGED call

Construct ==
    /\ pbnn = None
    /\ \E a \in CtorDom, hp \in HyperDom :
        LET r == PBNN_init(Fixed.input_shape, a.output_shape, a.n_hidden, Fixed.kl_weight,
                           a.n_layers, hp.epochs, hp.batch_size, hp.verbose)
        IN /\ pbnn' = IF r.exc = NoExc THEN r.self ELSE None
           /\ heap' = IF r.exc = NoExc THEN <<0>> ELSE <<>>
           /\ calls' = <<>>
           /\ ret' = IF r.exc = NoExc THEN SelfRef ELSE None
           /\ exc' = r.exc
           /\ last' = Invocation("__init__", None, None, 0, {})
    /\ UNCHANGED call

CanTrain == \A i \in 1..Len(heap) : heap[i] < MaxFits

Fit ==
    /\ pbnn # None /\ CanTrain
    /\ \E X \in XDom, y \in YDom, o \in FitOutcomes :
        Finish(PBNN_fit(Start, X, y, o), Invocation("fit", X, y, 0, {}))

Predict ==
    /\ pbnn # None
    /\ \E X \in XDom, n \in NSamplesDom, o \in SampleOutcomes :
        Finish(PBNN_predict(Start, X, n, o), Invocation("predict", X, None, n, {}))

PredictStd ==
    /\ pbnn # None
    /\ \E X \in XDom, o \in StddevOutcomes :
        Finish(PBNN_predict_std(Start, X, o), Invocation("predict_std", X, None, 0, {}))

Score ==
    /\ pbnn # None
    /\ \E X \in XDom, y \in YDom, o \in EvaluateOutcomes :
        Finish(PBNN_score(Start, X, y, o), Invocation("score", X, y, 0, {}))

Transform ==
    /\ pbnn # None
    /\ \E X \in XDom, o \in SampleOutcomes :
        Finish(PBNN_transform(Start, X, o), Invocation("transform", X, None, 0, {}))

FitTransform ==
    /\ pbnn # None /\ CanTrain
    /\ \E X \in XDom, y \in YDom \cup {None}, fp \in FitParamsDom, o \in FitSampleOutcomes :
        Finish(PBNN_fit_transform(Start, X, y, fp, o), Invocation("fit_transform", X, y, 0, fp))

InverseTransform ==
    /\ pbnn # None
    /\ \E y \in YDom \cup {None, ret} :
        Finish(PBNN_inverse_transform(Start, y), Invocation("inverse_transform", None, y, 0, {}))

NextPBNN ==
    \/ Construct
    \/ Fit
    \/ Predict
    \/ PredictStd
    \/ Score
    \/ Transform
    \/ FitTransform
    \/ InverseTransform

SpecPBNN == Init /\ [][NextPBNN]_vars

\* ======================= properties of the factory functions ==============
Result == call.result
Hidden(k) == [i \in 1..k |-> Result.model.layers[i + 1]]

\* C1: variational_model given a list n_hidden whose length differs from
\* n_layers raises ValueError before anything is constructed or compiled, and
\* returns no model.
C1_MismatchRaisesValueError ==
    (call.fn = "variational_model" /\ isinstance_list(call.n_hidden)
        /\ len(call.n_hidden) # call.n_layers)
    => /\ Result.exc = "ValueError"
       /\ Result.model = NoModel
       /\ Result.events = <<>>

C1_Witness ==
    /\ call.fn = "variational_model" /\ isinstance_list(call.n_hidden)
    /\ call.n_layers >= 1 /\ len(call.n_hidden) > call.n_layers
    /\ Result.exc = "ValueError"

\* C2 (as claimed): probabilistic_variational_model given a list n_hidden whose
\* length differs from n_layers, shorter or longer, fails with an error and
\* returns no model.
C2_ProbabilisticMismatchRejected ==
    (call.fn = "probabilistic_variational_model" /\ isinstance_list(call.n_hidden)
        /\ len(call.n_hidden) # call.n_layers)
    => /\ Result.exc # NoExc
       /\ Result.model = NoModel

\* C3: variational_model given a scalar n_hidden = h and n_layers = k >= 0
\* raises nothing and returns a model with exactly k hidden variational layers,
\* each of width h.
C3_ScalarExpanded ==
    (call.fn = "variational_model" /\ ~isinstance_list(call.n_hidden) /\ call.n_layers >= 0)
    => /\ Result.exc = NoExc
       /\ Result.model.kind = "Sequential"
       /\ Len(Result.model.layers) = call.n_layers + 2
       /\ \A i \in 1..call.n_layers :
            /\ Hidden(call.n_layers)[i].cls = "DenseVariational"
            /\ Hidden(call.n_layers)[i].units = call.n_hidden.val[1]
       /\ Cardinality({i \in 1..Len(Result.model.layers) :
                          Result.model.layers[i].cls = "DenseVariational"}) = call.n_layers

C3_Witness ==
    /\ call.fn = "variational_model" /\ ~isinstance_list(call.n_hidden)
    /\ call.n_layers >= 2 /\ call.n_hidden.val[1] >= 2
    /\ Result.exc = NoExc /\ Len(Result.model.layers) = call.n_layers + 2

\* C4 (as claimed): probabilistic_variational_model given a scalar n_hidden = h
\* and n_layers = k >= 1 succeeds with k hidden variational layers of width h.
C4_ProbabilisticScalarExpanded ==
    (call.fn = "probabilistic_variational_model" /\ ~isinstance_list(call.n_hidden)
        /\ call.n_layers >= 1)
    => /\ Result.exc = NoExc
       /\ Result.model.kind = "Sequential"
       /\ Len(Result.model.layers) = call.n_layers + 3
       /\ \A i \in 1..call.n_layers :
            /\ Hidden(call.n_layers)[i].cls = "DenseVariational"
            /\ Hidden(call.n_layers)[i].units = call.n_hidden.val[1]

\* C8: variational_model given a list n_hidden of length n_layers builds the
\* layers input, dense1 .. dense{n_layers}, output in that order, hidden layer i
\* of width n_hidden[i], the output layer of width output_shape; it compiles the
\* model exactly once, after assembling it, and leaves the caller's list alone.
C8_LayerSequence ==
    (call.fn = "variational_model" /\ isinstance_list(call.n_hidden)
        /\ len(call.n_hidden) = call.n_layers)
    => LET k == call.n_layers
           layers == Result.model.layers
           events == Result.events
           compiles == {i \in 1..Len(events) : events[i].ev = "compile"}
       IN /\ Result.exc = NoExc
          /\ Len(layers) = k + 2
          /\ layers[1].cls = "InputLayer" /\ layers[1].name = "input"
          /\ \A i \in 1..k :
               /\ layers[i + 1].cls = "DenseVariational"
               /\ layers[i + 1].name = "dense" \o ToString(i)
               /\ layers[i + 1].units = call.n_hidden.val[i]
          /\ layers[k + 2].cls = "Dense" /\ layers[k + 2].name = "output"
          /\ layers[k + 2].units = call.output_shape
          /\ Result.model.compiled = 1
          /\ compiles = {Len(events)}
          /\ events[Len(events) - 1].ev = "Sequential"
          /\ \A i \in 1..(Len(events) - 2) : events[i].ev = "layer"
          /\ Result.n_hidden = call.n_hidden

C8_Witness ==
    /\ call.fn = "variational_model" /\ isinstance_list(call.n_hidden)
    /\ call.n_layers = 2 /\ len(call.n_hidden) = 2
    /\ call.n_hidden.val[1] # call.n_hidden.val[2]
    /\ Result.exc = NoExc /\ Result.model.compiled = 1

\* ======================= properties of the wrapper ========================
Delegating == {"fit", "predict", "predict_std", "score", "transform", "fit_transform"}
Training == {"fit", "fit_transform"}

\* C5: inverse_transform returns its argument, makes no framework call, raises
\* nothing and changes neither the wrapper's attributes nor the model's
\* training state; applying it to its own result gives the argument back.
C5_InverseTransformIdentity ==
    [][last'.op = "inverse_transform"
        => /\ ret' = last'.y
           /\ calls' = <<>>
           /\ exc' = NoExc
           /\ pbnn' = pbnn
           /\ heap' = heap
           /\ PBNN_inverse_transform([self |-> pbnn', heap |-> heap', calls |-> <<>>,
                                      ret |-> None, exc |-> NoExc], ret').ret = last'.y]_vars

C5_Witness ==
    /\ last.op = "inverse_transform" /\ last.y \in YDom
    /\ ret = last.y /\ heap[1] > 0

\* C6: transform(X) calls the model on X once, then sample(100) once on the
\* distribution that call returned, returns the samples (or raises what the
\* framework raised), trains nothing and changes no attribute.
C6_TransformDelegates ==
    [][last'.op = "transform"
        => /\ pbnn' = pbnn
           /\ heap' = heap
           /\ Len(calls') \in {1, 2}
           /\ calls'[1].op = "call" /\ calls'[1].x = last'.x
           /\ Len(calls') = 2 <=> calls'[1].raised = NoExc
           /\ Len(calls') = 2
                => /\ calls'[2].op = "sample" /\ calls'[2].n = 100
                   /\ ret' = calls'[2].result
                   /\ exc' = calls'[2].raised
                   /\ exc' = NoExc => ret'.kind = "samples" /\ ret'.dist = calls'[1].result]_vars

C6_Witness ==
    /\ last.op = "transform" /\ exc = NoExc
    /\ Len(calls) = 2 /\ ret.kind = "samples" /\ ret.n = 100

\* C7: fit_transform(X, y, **fit_params) invokes the model's fit exactly once,
\* first, with (X, y, epochs, batch_size, verbose) of the wrapper and without
\* fit_params; when fit succeeds the rest is transform(X) run on the trained
\* model, whose result is returned.  fit itself returns the wrapper.
C7_FitThenTransform ==
    [][/\ last'.op = "fit_transform"
          => /\ Len(calls') >= 1
             /\ calls'[1].op = "fit"
             /\ calls'[1].x = last'.x /\ calls'[1].y = last'.y
             /\ calls'[1].epochs = pbnn.epochs
             /\ calls'[1].batch_size = pbnn.batch_size
             /\ calls'[1].verbose = pbnn.verbose
             /\ calls'[1].kwargs = {}
             /\ \A i \in 2..Len(calls') : calls'[i].op # "fit"
             /\ calls'[1].raised = NoExc
                  => /\ heap'[1] = heap[1] + 1
                     /\ \E o \in SampleOutcomes :
                          PBNN_transform([self |-> pbnn, heap |-> heap', calls |-> <<calls'[1]>>,
                                          ret |-> SelfRef, exc |-> NoExc], last'.x, o)
                            = [self |-> pbnn', heap |-> heap', calls |-> calls',
                               ret |-> ret', exc |-> exc']
                     /\ calls'[2].op = "call" /\ calls'[2].x = last'.x
                     /\ calls'[2].raised = NoExc => calls'[2].result.trained = heap[1] + 1
       /\ (last'.op = "fit" /\ exc' = NoExc) => ret' = SelfRef]_vars

C7_Witness ==
    /\ last.op = "fit_transform" /\ last.fit_params # {} /\ last.y \in YDom
    /\ exc = NoExc /\ Len(calls) = 3 /\ ret.kind = "samples"

\* C9: an error raised by the framework during fit, predict, predict_std,
\* score, transform or fit_transform ends the invocation at once and is the
\* error the wrapper raises; the wrapper raises nothing of its own.  When fit
\* fails inside fit_transform the model is not called for sampling.
C9_ErrorsPropagate ==
    last.op \in Delegating
    => /\ \A i \in 1..Len(calls) :
            calls[i].raised # NoExc => (i = Len(calls) /\ exc = calls[i].raised /\ ret = None)
       /\ exc # NoExc => (calls # <<>> /\ calls[Len(calls)].raised = exc)
       /\ (last.op = "fit_transform" /\ calls[1].raised # NoExc)
            => \A i \in 1..Len(calls) : calls[i].op \notin {"call", "sample"}

C9_Witness ==
    /\ last.op = "fit_transform" /\ exc \in FrameworkErrors
    /\ Len(calls) = 1 /\ calls[1].op = "fit" /\ calls[1].raised = exc

\* C10: once constructed, the wrapper's attributes (the model object and the
\* eight hyperparameters) never change, there is one model object, and its
\* training state changes only by a fit or fit_transform, one training more
\* per successful fit.
C10_AttributesStable ==
    [][pbnn # None
        => /\ pbnn' = pbnn
           /\ Len(heap') = 1
           /\ pbnn'.model.ref = 1
           /\ (\E i \in 1..Len(calls') : calls'[i].op = "fit") => last'.op \in Training
           /\ heap' # heap => (last'.op \in Training /\ heap'[1] = heap[1] + 1)]_vars

C10_Witness ==
    /\ pbnn # None /\ last.op = "fit" /\ exc = NoExc
    /\ heap[1] >= 2 /\ pbnn.epochs # epochs_default
====
